---------------------------- MODULE Spec2Model ----------------------------
(***************************************************************************)
(* Model of the e-learning analytics dashboards:                           *)
(*   src/elearning_analysis.py  - course table, derived metrics, filters,  *)
(*                                KPI cards, price-segment chart           *)
(*   src/streamlit_app.py       - synthesized program_cost / ROI           *)
(*   src/forecasting.py         - growth rate of the forecast insight      *)
(*   src/forecasting_simple.py  - moving average, linear trend, forecast,  *)
(*                                z-score anomaly flag                     *)
(*                                                                         *)
(* Every Streamlit script is re-executed top to bottom on each user        *)
(* interaction, so one action of the model is one whole run of a script.   *)
(*                                                                         *)
(* Numbers.  A float is modelled by an exact fraction <<n, d>> in lowest   *)
(* terms with d >= 0.  The IEEE special values keep their arithmetic:      *)
(* <<0,0>> is NaN, <<1,0>> is +inf and <<-1,0>> is -inf, so that 0/0, x/0  *)
(* and the mean of an empty column come out as pandas/numpy produce them.  *)
(* Rounding error of binary floating point is not modelled.                *)
(***************************************************************************)
EXTENDS Integers, Sequences, FiniteSets, TLC

VARIABLES
    pc,                 \* which script ran last and how the run ended
    raw,                \* elearning_analysis: rows of the course CSV
    df,                 \* elearning_analysis: load_data() result
    price_range,        \* elearning_analysis: price slider value (lo, hi)
    satisfaction_range, \* elearning_analysis: satisfaction slider value
    df_filtered,        \* elearning_analysis: filtered view
    kpi,                \* elearning_analysis: the five aggregate KPIs
    enriched_csv,       \* streamlit_app: rows of fraunhofer_enriched.csv
    enriched,           \* streamlit_app: load_data() result
    insight,            \* forecasting: what create_insights computed last
    csv,                \* forecasting_simple: points of courses_timeseries.csv
    selected_course,    \* forecasting_simple: selectbox value
    ts,                 \* forecasting_simple: the selected series and its columns
    alerting,           \* forecasting_simple: what section 9 did in the last run
    presses,            \* forecasting_simple: clicks on "Send Slack Alert" so far
    posts               \* forecasting_simple: requests.post calls made so far

vars == <<pc, raw, df, price_range, satisfaction_range, df_filtered, kpi,
          enriched_csv, enriched, insight, csv, selected_course, ts,
          alerting, presses, posts>>

dashVars == <<raw, df, price_range, satisfaction_range, df_filtered, kpi>>
enrichedVars == <<enriched_csv, enriched, insight>>
tsVars == <<csv, selected_course, ts, alerting, presses, posts>>

---------------------------------------------------------------------------
(* Bounds of the model *)

MaxRows == 3          \* rows of the course table when deriving metrics
MaxCount == 1         \* largest participants / num_reviews value
MaxCourses == 2       \* rows of the course table when filtering
MaxPriceStep == 3     \* prices are 0, 10, .., 10 * MaxPriceStep euros
MaxEnriched == 2      \* rows of the enriched table
MaxYhat == 1          \* largest forecast value handed to create_insights
MaxLen == 6           \* longest monthly series
MaxValue == 2         \* largest monthly revenue
MaxShort == 1         \* longest series of the second course
MaxPresses == 2       \* clicks on the alert button in one session

---------------------------------------------------------------------------
(* Float arithmetic on fractions *)

Abs(x) == IF x < 0 THEN -x ELSE x

Sign(x) == IF x < 0 THEN -1 ELSE IF x > 0 THEN 1 ELSE 0

RECURSIVE GCD(_, _)
GCD(a, b) == IF b = 0 THEN a ELSE GCD(b, a % b)

\* the fraction n/d as a float: lowest terms, 0/0 = NaN, x/0 = +-inf
Frac(n, d) ==
    IF d = 0 THEN <<Sign(n), 0>>
    ELSE LET g == GCD(Abs(n), Abs(d))
             s == Sign(d)
         IN  <<(s * n) \div g, (s * d) \div g>>

FInt(n) == <<n, 1>>
NaN == <<0, 0>>
Zero == <<0, 1>>
One == <<1, 1>>

IsNaN(a) == a = NaN
IsFinite(a) == a[2] # 0

FAdd(a, b) == Frac(a[1] * b[2] + b[1] * a[2], a[2] * b[2])
FSub(a, b) == Frac(a[1] * b[2] - b[1] * a[2], a[2] * b[2])
FMul(a, b) == Frac(a[1] * b[1], a[2] * b[2])
FDiv(a, b) == Frac(a[1] * b[2] * Sign(b[1]), a[2] * Abs(b[1]))

\* comparisons; every comparison with NaN is False
FLt(a, b) == ~IsNaN(a) /\ ~IsNaN(b) /\ a[1] * b[2] < b[1] * a[2]
FLe(a, b) == ~IsNaN(a) /\ ~IsNaN(b) /\ a[1] * b[2] <= b[1] * a[2]

RECURSIVE FSum(_)
FSum(s) == IF s = <<>> THEN Zero ELSE FAdd(FSum(SubSeq(s, 1, Len(s) - 1)), s[Len(s)])

RECURSIVE ISum(_)
ISum(s) == IF s = <<>> THEN 0 ELSE ISum(SubSeq(s, 1, Len(s) - 1)) + s[Len(s)]

\* Series.mean(): sum / count, NaN for an empty column
FMean(s) == FDiv(FSum(s), FInt(Len(s)))

Column(t, c) == [i \in 1..Len(t) |-> t[i][c]]

\* t[mask]: the rows of t whose entry of the boolean column mask is True
SelectRows(t, mask) ==
    LET RECURSIVE Sel(_)
        Sel(k) == IF k = 0 THEN <<>>
                  ELSE IF mask[k] THEN Append(Sel(k - 1), t[k]) ELSE Sel(k - 1)
    IN  Sel(Len(t))

---------------------------------------------------------------------------
(* elearning_analysis.py: load_data *)

\* np.where(df["participants"] > 0, df["revenue"] / df["participants"], 0.0)
RevenuePerParticipantUnguarded(r) == FDiv(FInt(r.revenue), FInt(r.participants))

RevenuePerParticipant(r) ==
    IF r.participants > 0
    THEN FDiv(FInt(r.revenue), FInt(r.participants))
    ELSE Zero

\* df["satisfaction"] / 5
SatisfactionScore(r) == FDiv(FInt(r.satisfaction), FInt(5))

\* Series.rank(pct=True): ascending rank, ties share the average of the
\* positions they occupy, divided by the number of rows
RankPctZeroBased(col, i) ==
    LET less == Cardinality({j \in DOMAIN col : col[j] < col[i]})
        same == Cardinality({j \in DOMAIN col : col[j] = col[i]})
    IN  Frac(2 * less + same - 1, 2 * Len(col))

RankPctDescending(col, i) ==
    LET more == Cardinality({j \in DOMAIN col : col[j] > col[i]})
        same == Cardinality({j \in DOMAIN col : col[j] = col[i]})
    IN  Frac(2 * more + same + 1, 2 * Len(col))

RankPct(col, i) ==
    LET less == Cardinality({j \in DOMAIN col : col[j] < col[i]})
        same == Cardinality({j \in DOMAIN col : col[j] = col[i]})
    IN  Frac(2 * less + same + 1, 2 * Len(col))

\* (adoption_score + engagement_score + satisfaction_score) / 3
ProductEngagementScore(a, e, s) == FDiv(FAdd(FAdd(a, e), s), FInt(3))

\* the table load_data returns; idx is the row's index label
load_data(t) ==
    [i \in 1..Len(t) |->
        LET a == RankPct(Column(t, "participants"), i)
            e == RankPct(Column(t, "num_reviews"), i)
            s == SatisfactionScore(t[i])
        IN  [idx |-> i,
             price |-> t[i].price,
             participants |-> t[i].participants,
             revenue |-> t[i].revenue,
             satisfaction |-> t[i].satisfaction,
             num_reviews |-> t[i].num_reviews,
             revenue_per_participant |-> RevenuePerParticipant(t[i]),
             satisfaction_score |-> s,
             adoption_score |-> a,
             engagement_score |-> e,
             PES |-> ProductEngagementScore(a, e, s)]]

---------------------------------------------------------------------------
(* elearning_analysis.py: sliders, filter, KPIs, price-segment chart *)

SatMin == 0
SatMax == 5

RECURSIVE SeqMin(_)
SeqMin(s) == IF Len(s) = 1 THEN s[1]
             ELSE LET m == SeqMin(SubSeq(s, 1, Len(s) - 1))
                  IN  IF s[Len(s)] < m THEN s[Len(s)] ELSE m

RECURSIVE SeqMax(_)
SeqMax(s) == IF Len(s) = 1 THEN s[1]
             ELSE LET m == SeqMax(SubSeq(s, 1, Len(s) - 1))
                  IN  IF s[Len(s)] > m THEN s[Len(s)] ELSE m

price_min(t) == SeqMin(Column(t, "price"))
price_max(t) == SeqMax(Column(t, "price"))

\* Series.between(lo, hi): inclusive on both sides
BetweenExclusiveRight(x, range) == range[1] <= x /\ x < range[2]

Between(x, range) == range[1] <= x /\ x <= range[2]

\* df[(df["price"].between(*price_range)) & (df["satisfaction"].between(*satisfaction_range))]
FilterEitherPredicate(t, pr, sr) ==
    SelectRows(t, [i \in 1..Len(t) |->
                      Between(t[i].price, pr) \/ Between(t[i].satisfaction, sr)])

\* the filter followed by a fresh computation of the scores within the view
FilterAndRerank(t, pr, sr) ==
    LET view == SelectRows(t, [i \in 1..Len(t) |->
                    Between(t[i].price, pr) /\ Between(t[i].satisfaction, sr)])
        again == load_data(view)
    IN  [k \in 1..Len(view) |-> [again[k] EXCEPT !.idx = view[k].idx]]

Filter(t, pr, sr) ==
    SelectRows(t, [i \in 1..Len(t) |->
                      Between(t[i].price, pr) /\ Between(t[i].satisfaction, sr)])

\* section 5 of the script: sums and means over the filtered view
KPIs(view) ==
    [total_revenue |-> ISum(Column(view, "revenue")),
     total_participants |-> ISum(Column(view, "participants")),
     avg_satisfaction |-> FMean([i \in 1..Len(view) |-> FInt(view[i].satisfaction)]),
     avg_roi |-> FMean(Column(view, "revenue_per_participant")),
     avg_PES |-> FMean(Column(view, "PES"))]

\* pd.cut(price, bins=[0, 10, 20, price.max()]): the bin edges must increase
\* strictly, else pandas raises ValueError.  Over an empty view the last edge
\* is NaN, which pandas accepts or rejects depending on its version.
SegmentOutcomes(view) ==
    IF view = <<>> THEN {"rendered", "error"}
    ELSE IF SeqMax(Column(view, "price")) > 20 THEN {"rendered"} ELSE {"error"}

\* slider positions: lo <= hi within [min_value, max_value]; the price on a
\* 10-euro grid, the satisfaction at both ends and at a point in between
PriceStops(t) == {p \in price_min(t)..price_max(t) : p % 10 = 0}
SatStops == {SatMin, 3, SatMax}
Ranges(stops) == {r \in stops \X stops : r[1] <= r[2]}

\* one run of the script with the sliders at pr and sr
RunDashboard(pr, sr) ==
    /\ df' = IF pc = "start" THEN load_data(raw) ELSE df   \* @st.cache_data
    /\ price_range' = pr
    /\ satisfaction_range' = sr
    /\ df_filtered' = Filter(df', pr, sr)
    /\ kpi' = KPIs(df_filtered')
    /\ \E outcome \in SegmentOutcomes(df_filtered') : pc' = outcome
    /\ UNCHANGED <<raw, enrichedVars, tsVars>>

\* the first run: both sliders at their default value
DefaultPriceRange(t) == <<price_min(t), price_max(t)>>
DefaultSatisfactionRange == <<SatMin, SatMax>>

FirstRun ==
    /\ pc = "start"
    /\ RunDashboard(DefaultPriceRange(load_data(raw)), DefaultSatisfactionRange)

MovePriceSlider ==
    /\ pc \in {"rendered", "error"}
    /\ \E pr \in Ranges(PriceStops(df)) : RunDashboard(pr, satisfaction_range)

MoveSatisfactionSlider ==
    /\ pc \in {"rendered", "error"}
    /\ \E sr \in Ranges(SatStops) : RunDashboard(price_range, sr)

\* load_data alone, for the properties of the derived columns
LoadData ==
    /\ pc = "start"
    /\ df' = load_data(raw)
    /\ pc' = "loaded"
    /\ UNCHANGED <<raw, price_range, satisfaction_range, df_filtered, kpi,
                   enrichedVars, tsVars>>

\* course tables of 'sizes' rows with the columns drawn from the given sets
CourseTables(sizes, prices, sats, counts, revenues) ==
    UNION {[1..n -> [price : prices, satisfaction : sats, participants : counts,
                     num_reviews : counts, revenue : revenues]] : n \in sizes}

Prices == {10 * k : k \in 0..MaxPriceStep}

NoRange == <<0, 0>>
NoEnrichedCsv == [roi_column |-> FALSE, rows |-> <<>>]
NoSeries == [revenue |-> <<>>]
NoAlerting == [button |-> FALSE, pressed |-> FALSE, alert_text |-> <<>>, posted |-> 0,
               response |-> "none", success |-> FALSE, info |-> FALSE]
NoKpi == [total_revenue |-> 0, total_participants |-> 0, avg_satisfaction |-> NaN,
          avg_roi |-> NaN, avg_PES |-> NaN]

InitOthers ==
    /\ pc = "start"
    /\ df = <<>>
    /\ price_range = NoRange
    /\ satisfaction_range = NoRange
    /\ df_filtered = <<>>
    /\ kpi = NoKpi
    /\ enriched_csv = NoEnrichedCsv
    /\ enriched = <<>>
    /\ insight = <<>>
    /\ csv = {}
    /\ selected_course = "None"
    /\ ts = NoSeries
    /\ alerting = NoAlerting
    /\ presses = 0
    /\ posts = 0

\* the dashboard with its filters: tables that vary in price and satisfaction
Init ==
    /\ raw \in CourseTables(1..MaxCourses, Prices, {SatMin, SatMax}, {1}, {100})
    /\ InitOthers

Next == FirstRun \/ MovePriceSlider \/ MoveSatisfactionSlider

Spec == Init /\ [][Next]_vars

\* load_data: tables that vary in participants, reviews and revenue
InitDerive ==
    /\ raw \in CourseTables(0..MaxRows, {10}, {4}, 0..MaxCount, {0, 3})
    /\ InitOthers

NextDerive == LoadData

SpecDerive == InitDerive /\ [][NextDerive]_vars

---------------------------------------------------------------------------
(* streamlit_app.py: load_data *)

\* values rng.uniform(0.4, 0.7) can draw
CostRatios == {Frac(2, 5), Frac(3, 5)}

\* df["ROI"] = (df["revenue"] - df["program_cost"]) / df["program_cost"]
ReturnOnInvestment(revenue, program_cost) ==
    FDiv(FSub(revenue, program_cost), program_cost)

\* load_data with the cost ratio drawn for each row; a table that brings its
\* own ROI column keeps it and gets no program_cost column (NaN stands for
\* the missing cell); rows of subject "Other" are dropped at the end
load_enriched(t, ratios) ==
    LET full == [i \in 1..Len(t.rows) |->
                    LET cost == FMul(FInt(t.rows[i].revenue), ratios[i])
                    IN  [revenue |-> t.rows[i].revenue,
                         subject |-> t.rows[i].subject,
                         program_cost |-> IF t.roi_column THEN NaN ELSE cost,
                         ROI |-> IF t.roi_column THEN t.rows[i].ROI
                                 ELSE ReturnOnInvestment(FInt(t.rows[i].revenue), cost)]]
    IN  SelectRows(full, [i \in 1..Len(full) |-> full[i].subject # "Other"])

\* the generator is seeded with 42 on every call, so a later run draws the
\* same ratios again: the table is loaded once
LoadEnriched ==
    /\ pc \in {"start", "insights"}
    /\ enriched = <<>>
    /\ \E ratios \in [1..Len(enriched_csv.rows) -> CostRatios] :
          enriched' = load_enriched(enriched_csv, ratios)
    /\ pc' = "enriched"
    /\ UNCHANGED <<enriched_csv, insight, dashVars, tsVars>>

---------------------------------------------------------------------------
(* forecasting.py: create_insights *)

\* growth_rate = (last["yhat"] - prev["yhat"]) / prev["yhat"] * 100
GrowthRate(last, prev) == FMul(FDiv(FSub(last, prev), prev), FInt(100))

create_insights(last, prev) ==
    LET g == GrowthRate(FInt(last), FInt(prev))
    IN  [last |-> last, prev |-> prev, growth_rate |-> g,
         trend |-> IF FLt(FInt(15), g) THEN "strong upward trend"
                   ELSE IF FLt(FInt(5), g) THEN "moderate growth"
                   ELSE IF FLt(Zero, g) THEN "slight upward trend"
                   ELSE "downward trend"]

\* one run of the script: the revenue and the participants insight, on the
\* last forecast row and the row three months before it
RunForecasting ==
    /\ pc \in {"start", "enriched", "insights"}
    /\ \E rl, rp, pl, pp \in 0..MaxYhat :
          insight' = <<create_insights(rl, rp), create_insights(pl, pp)>>
    /\ pc' = "insights"
    /\ UNCHANGED <<enriched_csv, enriched, dashVars, tsVars>>

EnrichedTables ==
    {[roi_column |-> c, rows |-> r] :
        c \in BOOLEAN,
        r \in UNION {[1..n -> [revenue : {0, 100}, subject : {"IT", "Other"},
                               ROI : {One}]] : n \in 1..MaxEnriched}}

InitRatios ==
    /\ pc = "start"
    /\ raw = <<>>
    /\ df = <<>>
    /\ price_range = NoRange
    /\ satisfaction_range = NoRange
    /\ df_filtered = <<>>
    /\ kpi = NoKpi
    /\ enriched_csv \in EnrichedTables
    /\ enriched = <<>>
    /\ insight = <<>>
    /\ csv = {}
    /\ selected_course = "None"
    /\ ts = NoSeries
    /\ alerting = NoAlerting
    /\ presses = 0
    /\ posts = 0

NextRatios == LoadEnriched \/ RunForecasting

SpecRatios == InitRatios /\ [][NextRatios]_vars

---------------------------------------------------------------------------
(* forecasting_simple.py *)

Window == 3
MinPeriods == 1

\* load_timeseries: df.sort_values("month")
RECURSIVE SortByMonth(_)
SortByMonth(points) ==
    IF points = {} THEN <<>>
    ELSE LET first == CHOOSE p \in points : \A q \in points : p.month <= q.month
         IN  <<first>> \o SortByMonth(points \ {first})

\* sorted(df["course_name"].unique())
course_list(points) == {p.course_name : p \in points}

\* Series.rolling(window=3, min_periods=1).mean(): the running sum and the
\* number of observations in the window, one value entering and, once the
\* window is full, one leaving at each step
RECURSIVE RollingNoRemove(_, _)
RollingNoRemove(y, i) ==
    IF i = 0 THEN <<0, 0>>
    ELSE LET prev == RollingNoRemove(y, i - 1)
         IN  <<prev[1] + y[i], prev[2] + 1>>

RECURSIVE Rolling(_, _)
Rolling(y, i) ==
    IF i = 0 THEN <<0, 0>>
    ELSE LET prev == Rolling(y, i - 1)
             added == <<prev[1] + y[i], prev[2] + 1>>
         IN  IF i > Window
             THEN <<added[1] - y[i - Window], added[2] - 1>>
             ELSE added

RollingMean(y) ==
    [i \in 1..Len(y) |->
        LET w == Rolling(y, i)
        IN  IF w[2] >= MinPeriods THEN Frac(w[1], w[2]) ELSE NaN]

\* np.polyfit(x, y, 1) over x = 0..n-1: the least-squares line
Polyfit(y) ==
    LET n == Len(y)
        sx == ISum([i \in 1..n |-> i - 1])
        sxx == ISum([i \in 1..n |-> (i - 1) * (i - 1)])
        sy == ISum(y)
        sxy == ISum([i \in 1..n |-> (i - 1) * y[i]])
        slope == Frac(n * sxy - sx * sy, n * sxx - sx * sx)
    IN  [slope |-> slope,
         intercept |-> FDiv(FSub(FInt(sy), FMul(slope, FInt(sx))), FInt(n))]

\* max(a, b) of Python: b only when b > a
PyMax(a, b) == IF FLt(a, b) THEN b ELSE a

\* A standard deviation and a z-score are kept as a sign and a square:
\* [sgn, sq] stands for sgn * sqrt(sq), and for NaN when sq is NaN.
Root(sq) == [sgn |-> IF IsNaN(sq) THEN 0 ELSE Sign(sq[1]), sq |-> sq]

PopulationStd(y) ==
    LET mean == FMean([i \in 1..Len(y) |-> FInt(y[i])])
        dev2 == [i \in 1..Len(y) |-> LET d == FSub(FInt(y[i]), mean) IN FMul(d, d)]
    IN  Root(FDiv(FSum(dev2), FInt(Len(y))))

StandardError(y) ==
    LET mean == FMean([i \in 1..Len(y) |-> FInt(y[i])])
        dev2 == [i \in 1..Len(y) |-> LET d == FSub(FInt(y[i]), mean) IN FMul(d, d)]
        var == FDiv(FSum(dev2), FInt(Len(y) - 1))
    IN  Root(FDiv(var, FInt(Len(y))))

\* Series.std(): the sample standard deviation (ddof = 1), NaN for n = 1
SampleStd(y) ==
    LET mean == FMean([i \in 1..Len(y) |-> FInt(y[i])])
        dev2 == [i \in 1..Len(y) |-> LET d == FSub(FInt(y[i]), mean) IN FMul(d, d)]
    IN  Root(FDiv(FSum(dev2), FInt(Len(y) - 1)))

\* x / r for a float x and a non-negative root r
DivByRoot(x, r) ==
    LET q == FDiv(FMul(x, x), r.sq)
    IN  [sgn |-> IF IsNaN(q) THEN 0 ELSE Sign(x[1]), sq |-> q]

\* |z| > 2
AbsAbove2(z) == FLt(FInt(4), z.sq)

\* ts["revenue"].std() if ts["revenue"].std() != 0 else 1
StdRev(y) == IF SampleStd(y) # Root(Zero) THEN SampleStd(y) ELSE Root(One)

\* section 8: the insight, written only when the last point is anomalous
Insight(y, mean_rev, last_is_anomaly) ==
    IF last_is_anomaly
    THEN LET diff_pct == FMul(FDiv(FSub(FInt(y[Len(y)]), mean_rev), mean_rev), FInt(100))
         IN  [shown |-> TRUE,
              avg_rev |-> mean_rev,
              diff_pct |-> diff_pct,
              direction |-> IF FLt(diff_pct, Zero) THEN "dropped" ELSE "spiked"]
    ELSE [shown |-> FALSE]

\* sections 3, 4 and 8 of the script over the selected series y, n >= 1
Estimate(y) ==
    LET n == Len(y)
        fit == IF n > 1 THEN Polyfit(y) ELSE [slope |-> Zero, intercept |-> FInt(y[1])]
        mean_rev == FMean([i \in 1..n |-> FInt(y[i])])
        std_rev == StdRev(y)
        z_score == [i \in 1..n |-> DivByRoot(FSub(FInt(y[i]), mean_rev), std_rev)]
        anomaly == [i \in 1..n |-> AbsAbove2(z_score[i])]
    IN  [revenue |-> y,
         ma |-> RollingMean(y),
         slope |-> fit.slope,
         intercept |-> fit.intercept,
         trend |-> [i \in 1..n |-> FAdd(fit.intercept, FMul(fit.slope, FInt(i - 1)))],
         forecast |-> PyMax(FAdd(fit.intercept, FMul(fit.slope, FInt(n))), Zero),
         mean_rev |-> mean_rev,
         std_rev |-> std_rev,
         z_score |-> z_score,
         anomaly |-> anomaly,
         last_is_anomaly |-> anomaly[n],
         insight |-> Insight(y, mean_rev, anomaly[n])]

\* ts = df[df["course_name"] == selected_course].sort_values("month")
SelectedSeries(points, c) ==
    LET sorted == SortByMonth(points)
        rows == SelectRows(sorted, [i \in 1..Len(sorted) |-> sorted[i].course_name = c])
    IN  Column(rows, "revenue_monthly")

\* what requests.post can do: answer 2xx, answer another status, or raise
PostOutcomes == {"ok", "non_2xx", "raised"}

\* section 9 of the script for the estimated series t of course c, in a run in
\* which the button was clicked (pressed) or not.  The button exists only when
\* the last point is anomalous; a click builds the alert text, calls
\* requests.post once and, unless the call raised, reports success whatever
\* the response status.
AlertingWithoutButton(t, c, pressed, outcome) ==
    IF t.last_is_anomaly
    THEN [button |-> TRUE, pressed |-> pressed,
          alert_text |-> <<[course_name |-> c,
                            revenue |-> t.revenue[Len(t.revenue)],
                            z_score |-> t.z_score[Len(t.revenue)],
                            diff_pct |-> t.insight.diff_pct]>>,
          posted |-> 1, response |-> outcome,
          success |-> outcome # "raised", info |-> FALSE]
    ELSE [button |-> FALSE, pressed |-> FALSE, alert_text |-> <<>>, posted |-> 0,
          response |-> "none", success |-> FALSE, info |-> TRUE]

Alerting(t, c, pressed, outcome) ==
    IF t.last_is_anomaly
    THEN IF pressed
         THEN [button |-> TRUE, pressed |-> TRUE,
               alert_text |-> <<[course_name |-> c,
                                 revenue |-> t.revenue[Len(t.revenue)],
                                 z_score |-> t.z_score[Len(t.revenue)],
                                 diff_pct |-> t.insight.diff_pct]>>,
               posted |-> 1, response |-> outcome,
               success |-> outcome # "raised", info |-> FALSE]
         ELSE [button |-> TRUE, pressed |-> FALSE, alert_text |-> <<>>, posted |-> 0,
               response |-> "none", success |-> FALSE, info |-> FALSE]
    ELSE [button |-> FALSE, pressed |-> FALSE, alert_text |-> <<>>, posted |-> 0,
          response |-> "none", success |-> FALSE, info |-> TRUE]

\* one run of the script with the selectbox at c.  Over an empty series the
\* moving average is computed (an empty column) and ts["revenue"].iloc[0]
\* then raises IndexError, which ends the run before section 9.  An exception
\* raised by requests.post is not caught either and ends the run.
RunForecastSimple(c, pressed, outcome) ==
    LET y == SelectedSeries(csv, c)
    IN  /\ selected_course' = c
        /\ presses' = IF pressed THEN presses + 1 ELSE presses
        /\ IF Len(y) = 0
           THEN /\ ts' = [revenue |-> y, ma |-> RollingMean(y)]
                /\ alerting' = NoAlerting
                /\ posts' = posts
                /\ pc' = "error"
           ELSE /\ ts' = Estimate(y)
                /\ alerting' = Alerting(ts', c, pressed, outcome)
                /\ posts' = posts + alerting'.posted
                /\ pc' = IF alerting'.response = "raised" THEN "post_error" ELSE "estimated"
        /\ UNCHANGED <<csv, dashVars, enrichedVars>>

\* the selectbox offers the courses of the table; with no option it yields None
SelectCourse ==
    /\ pc = "start"
    /\ \E c \in (IF course_list(csv) = {} THEN {"None"} ELSE course_list(csv)) :
          RunForecastSimple(c, FALSE, "none")

\* a later run: the user picks another course
ChangeCourse ==
    /\ pc \in {"estimated", "error", "post_error"}
    /\ \E c \in course_list(csv) \ {selected_course} :
          RunForecastSimple(c, FALSE, "none")

\* a later run: the user clicks the button the last run has drawn
PressButton ==
    /\ pc \in {"estimated", "post_error"}
    /\ alerting.button
    /\ presses < MaxPresses
    /\ \E outcome \in PostOutcomes :
          RunForecastSimple(selected_course, TRUE, outcome)

\* the points of one course with the given monthly revenues
PointsOf(c, y) == {[course_name |-> c, month |-> i, revenue_monthly |-> y[i]] : i \in 1..Len(y)}

SeriesUpTo(n, values) == UNION {[1..k -> values] : k \in 0..n}

InitForecast ==
    /\ pc = "start"
    /\ raw = <<>>
    /\ df = <<>>
    /\ price_range = NoRange
    /\ satisfaction_range = NoRange
    /\ df_filtered = <<>>
    /\ kpi = NoKpi
    /\ enriched_csv = NoEnrichedCsv
    /\ enriched = <<>>
    /\ insight = <<>>
    /\ csv \in {PointsOf("A", y) : y \in SeriesUpTo(MaxLen, 0..MaxValue)}
    /\ selected_course = "None"
    /\ ts = NoSeries
    /\ alerting = NoAlerting
    /\ presses = 0
    /\ posts = 0

NextForecast == SelectCourse

SpecForecast == InitForecast /\ [][NextForecast]_vars

\* the script with its selectbox and its alert button: two courses, the first
\* with revenues of 0, 100 or 500, the second with a short series
InitAlert ==
    /\ pc = "start"
    /\ raw = <<>>
    /\ df = <<>>
    /\ price_range = NoRange
    /\ satisfaction_range = NoRange
    /\ df_filtered = <<>>
    /\ kpi = NoKpi
    /\ enriched_csv = NoEnrichedCsv
    /\ enriched = <<>>
    /\ insight = <<>>
    /\ csv \in {PointsOf("A", ya) \cup PointsOf("B", yb) :
                   ya \in SeriesUpTo(MaxLen, {0, 100, 500}),
                   yb \in SeriesUpTo(MaxShort, {100, 500})}
    /\ selected_course = "None"
    /\ ts = NoSeries
    /\ alerting = NoAlerting
    /\ presses = 0
    /\ posts = 0

NextAlert == SelectCourse \/ ChangeCourse \/ PressButton

SpecAlert == InitAlert /\ [][NextAlert]_vars

---------------------------------------------------------------------------
(* Properties of load_data, checked under SpecDerive *)

Loaded == pc = "loaded"

\* C1: every loaded row has revenue_per_participant = 0 when participants = 0
\* and revenue / participants (the number that, times participants, gives
\* the revenue) when participants > 0.
C1_RevenuePerParticipant ==
    Loaded =>
        \A i \in DOMAIN df :
            /\ raw[i].participants = 0 => df[i].revenue_per_participant = Zero
            /\ raw[i].participants > 0 =>
                   /\ IsFinite(df[i].revenue_per_participant)
                   /\ FMul(df[i].revenue_per_participant, FInt(raw[i].participants))
                          = FInt(raw[i].revenue)

\* a loaded table with a paying course that has no participant and another
\* that has some
C1_Witness ==
    /\ Loaded
    /\ \E i, j \in DOMAIN df :
          /\ raw[i].participants = 0 /\ raw[i].revenue > 0
          /\ raw[j].participants > 0 /\ raw[j].revenue > 0

\* C4: percentile ranks are monotonic: fewer participants never gives a
\* higher adoption_score, fewer reviews never a higher engagement_score,
\* whatever ties the other rows have.
C4_RanksMonotonic ==
    Loaded =>
        \A i, j \in DOMAIN df :
            /\ raw[i].participants < raw[j].participants
                   => FLe(df[i].adoption_score, df[j].adoption_score)
            /\ raw[i].num_reviews < raw[j].num_reviews
                   => FLe(df[i].engagement_score, df[j].engagement_score)

\* three rows: i below j in both columns, and a third row tied with i
C4_Witness ==
    /\ Loaded
    /\ \E i, j, k \in DOMAIN df :
          /\ i # k /\ j # k
          /\ raw[i].participants < raw[j].participants
          /\ raw[i].num_reviews < raw[j].num_reviews
          /\ raw[k].participants = raw[i].participants
          /\ raw[k].num_reviews = raw[j].num_reviews

\* C5: in a non-empty table both scores of every row lie in (0, 1], and the
\* only row of a one-row table has adoption_score 1 whatever its participants.
C5_ScoresInUnitInterval ==
    Loaded =>
        /\ \A i \in DOMAIN df :
              /\ FLt(Zero, df[i].adoption_score) /\ FLe(df[i].adoption_score, One)
              /\ FLt(Zero, df[i].engagement_score) /\ FLe(df[i].engagement_score, One)
        /\ Len(df) = 1 => df[1].adoption_score = One

\* the spec's example: a single row with no participant and some revenue
C5_Witness ==
    /\ Loaded
    /\ Len(df) = 1
    /\ raw[1].participants = 0
    /\ raw[1].revenue > 0
    /\ df[1].adoption_score = One

---------------------------------------------------------------------------
(* Properties of the filtered dashboard, checked under Spec *)

Ran == pc \in {"rendered", "error"}

InView(i) == \E k \in DOMAIN df_filtered : df_filtered[k].idx = i

\* C2: a row is in the filtered view exactly when its price lies in the
\* chosen price range and its satisfaction in the chosen satisfaction range,
\* bounds included; the view holds rows of the table only, each once, in order.
C2_FilterExact ==
    Ran =>
        /\ \A i \in DOMAIN df :
              InView(i) <=>
                  /\ price_range[1] <= df[i].price
                  /\ df[i].price <= price_range[2]
                  /\ satisfaction_range[1] <= df[i].satisfaction
                  /\ df[i].satisfaction <= satisfaction_range[2]
        /\ \A k \in DOMAIN df_filtered :
              /\ df_filtered[k].idx \in DOMAIN df
              /\ df_filtered[k] = df[df_filtered[k].idx]
        /\ \A k, l \in DOMAIN df_filtered :
              k < l => df_filtered[k].idx < df_filtered[l].idx

\* a view that keeps one row on the boundary of both ranges and drops another
\* that only one of the two ranges admits
C2_Witness ==
    /\ Ran
    /\ Len(df) = 2
    /\ Len(df_filtered) = 1
    /\ \E i, j \in DOMAIN df :
          /\ InView(i)
          /\ df[i].price = price_range[2]
          /\ df[i].satisfaction = satisfaction_range[1]
          /\ ~InView(j)
          /\ price_range[1] <= df[j].price /\ df[j].price <= price_range[2]
          /\ df[j].satisfaction > satisfaction_range[2]

FullRange ==
    /\ \A i \in DOMAIN df : price_range[1] <= df[i].price /\ df[i].price <= price_range[2]
    /\ \E i \in DOMAIN df : price_range[1] = df[i].price
    /\ \E i \in DOMAIN df : price_range[2] = df[i].price
    /\ satisfaction_range = <<0, 5>>

\* C3: with the price range at [min price, max price] of the table and the
\* satisfaction range at [0, 5], the filtered view is the whole table.
C3_FullRangeKeepsAll == (Ran /\ FullRange) => df_filtered = df

\* a run with both sliders at their full range, over two courses at opposite
\* ends of the price and of the satisfaction scale
C3_Witness ==
    /\ Ran
    /\ FullRange
    /\ price_range[1] < price_range[2]
    /\ \E i, j \in DOMAIN df :
          /\ df[i].price = price_range[1] /\ df[i].satisfaction = 0
          /\ df[j].price = price_range[2] /\ df[j].satisfaction = 5
    /\ Len(df_filtered) = 2

\* C6: when the filter selects no row, every aggregate KPI reports a defined
\* value, not NaN, and the chart preparation that follows raises no error.
C6_EmptyViewNoData ==
    (Ran /\ df_filtered = <<>>) =>
        /\ ~IsNaN(kpi.avg_satisfaction)
        /\ ~IsNaN(kpi.avg_roi)
        /\ ~IsNaN(kpi.avg_PES)
        /\ pc # "error"

---------------------------------------------------------------------------
(* The divide-by-zero policy, checked under SpecRatios *)

\* C7: every ratio the code computes is 0 when its denominator is 0:
\* revenue_per_participant (participants = 0), the synthesized ROI
\* (program_cost = 0), the anomaly's percentage deviation (series mean = 0)
\* and the forecast growth rate (previous forecast value = 0).
C7_ZeroDenominatorYieldsZero ==
    /\ \A i \in DOMAIN df :
          df[i].participants = 0 => df[i].revenue_per_participant = Zero
    /\ \A i \in DOMAIN enriched :
          enriched[i].program_cost = Zero => enriched[i].ROI = Zero
    /\ (pc = "estimated" /\ ts.insight.shown /\ ts.insight.avg_rev = Zero)
          => ts.insight.diff_pct = Zero
    /\ \A k \in DOMAIN insight :
          insight[k].prev = 0 => insight[k].growth_rate = Zero

---------------------------------------------------------------------------
(* Properties of the trend / forecast / anomaly pass, checked under SpecForecast *)

ForecastRan == pc \in {"estimated", "error"}

WindowStart(i) == IF i > 2 THEN i - 2 ELSE 1

\* C8: the moving average at every index i of a series is the arithmetic mean
\* of the values at the (up to three) indices ending at i; at the first index
\* it is the raw value, at the second the mean of the first two values.
C8_MovingAverage ==
    ForecastRan =>
        /\ Len(ts.ma) = Len(ts.revenue)
        /\ \A i \in DOMAIN ts.revenue :
              /\ IsFinite(ts.ma[i])
              /\ FMul(ts.ma[i], FInt(i - WindowStart(i) + 1))
                     = FInt(ISum(SubSeq(ts.revenue, WindowStart(i), i)))
        /\ Len(ts.revenue) >= 1 => ts.ma[1] = FInt(ts.revenue[1])
        /\ Len(ts.revenue) >= 2 =>
               FAdd(ts.ma[2], ts.ma[2]) = FInt(ts.revenue[1] + ts.revenue[2])

\* a series of five or more months in which a value that has left the window
\* differs from the one that has entered it
C8_Witness ==
    /\ pc = "estimated"
    /\ Len(ts.revenue) >= 5
    /\ ts.revenue[1] # ts.revenue[4]
    /\ ts.revenue[2] # ts.revenue[5]
    /\ ts.ma[5] # ts.ma[4]

\* C9: for any series, of length 0 or 1 and steeply decreasing ones included,
\* the run raises no error and produces the forecast
\* max(intercept + slope * len(series), 0), which is >= 0.
C9_ForecastNeverNegative ==
    ForecastRan =>
        /\ pc = "estimated"
        /\ LET line == FAdd(ts.intercept, FMul(ts.slope, FInt(Len(ts.revenue))))
           IN  ts.forecast = IF FLt(line, Zero) THEN Zero ELSE line
        /\ FLe(Zero, ts.forecast)

\* C10: for a constant series of any length n >= 1 the slope is 0, the trend
\* is the constant value, the standard deviation is taken as 1, every z_score
\* is exactly 0 and no point is flagged anomalous.
C10_ConstantSeries ==
    (pc = "estimated" /\ \A i \in DOMAIN ts.revenue : ts.revenue[i] = ts.revenue[1]) =>
        /\ ts.slope = Zero
        /\ \A i \in DOMAIN ts.trend : ts.trend[i] = FInt(ts.revenue[1])
        /\ ts.std_rev = [sgn |-> 1, sq |-> One]
        /\ \A i \in DOMAIN ts.z_score : ts.z_score[i] = [sgn |-> 0, sq |-> Zero]
        /\ \A i \in DOMAIN ts.anomaly : ~ts.anomaly[i]

\* the same for the constant series of two or more observations (the part of
\* C10 the code satisfies)
ConstantSeriesOfTwoOrMore ==
    (pc = "estimated" /\ Len(ts.revenue) >= 2
        /\ \A i \in DOMAIN ts.revenue : ts.revenue[i] = ts.revenue[1]) =>
        /\ ts.slope = Zero
        /\ \A i \in DOMAIN ts.trend : ts.trend[i] = FInt(ts.revenue[1])
        /\ ts.std_rev = [sgn |-> 1, sq |-> One]
        /\ \A i \in DOMAIN ts.z_score : ts.z_score[i] = [sgn |-> 0, sq |-> Zero]
        /\ \A i \in DOMAIN ts.anomaly : ~ts.anomaly[i]

\* the forecast of every non-empty series (the part of C9 the code satisfies)
ForecastOfNonEmptySeries ==
    pc = "estimated" =>
        /\ LET line == FAdd(ts.intercept, FMul(ts.slope, FInt(Len(ts.revenue))))
           IN  ts.forecast = IF FLt(line, Zero) THEN Zero ELSE line
        /\ FLe(Zero, ts.forecast)

---------------------------------------------------------------------------
(* The scores under filtering, checked under Spec *)

\* the percentile rank of row i of the loaded table within the whole table
RankInTable(c, i) ==
    Frac(2 * Cardinality({j \in DOMAIN raw : raw[j][c] < raw[i][c]})
           + Cardinality({j \in DOMAIN raw : raw[j][c] = raw[i][c]}) + 1,
         2 * Len(raw))

\* C13: after any sequence of filter changes every row of the filtered view
\* carries the adoption_score, engagement_score and PES computed on the full
\* loaded table, and the average-PES KPI is the mean of these values over the
\* rows of the view.
C13_ScoresFixedUnderFiltering ==
    Ran =>
        /\ \A k \in DOMAIN df_filtered :
              LET i == df_filtered[k].idx
                  a == RankInTable("participants", i)
                  e == RankInTable("num_reviews", i)
                  s == Frac(raw[i].satisfaction, 5)
              IN  /\ df_filtered[k].adoption_score = a
                  /\ df_filtered[k].engagement_score = e
                  /\ df_filtered[k].PES = FDiv(FAdd(FAdd(a, e), s), FInt(3))
        /\ df_filtered # <<>> =>
              FMul(kpi.avg_PES, FInt(Len(df_filtered)))
                  = FSum([k \in DOMAIN df_filtered |-> df[df_filtered[k].idx].PES])

\* a narrowed price range that keeps one of two courses: its scores are those
\* of the two-course table, not those of a table of its own
C13_Witness ==
    /\ Ran
    /\ Len(df) = 2
    /\ Len(df_filtered) = 1
    /\ price_range[1] = price_range[2]
    /\ satisfaction_range # <<0, 5>>
    /\ FLt(df_filtered[1].adoption_score, One)
    /\ ~IsNaN(kpi.avg_PES)

\* the script got as far as section 8 (anomaly detection and insight)
Detected == pc \in {"estimated", "post_error"}

\* the squared deviation of point i from the mean of the series y
SquaredDeviation(y, i) ==
    LET d == FSub(FInt(y[i]), FMean([j \in 1..Len(y) |-> FInt(y[j])]))
    IN  FMul(d, d)

\* the sum of the squared deviations over divisor, the variance of the series y
VarianceOver(y, divisor) ==
    FDiv(FSum([i \in 1..Len(y) |-> SquaredDeviation(y, i)]), FInt(divisor))

\* |value - mean| > 2 * std, in squares, with the standard deviation of the
\* given divisor
BeyondTwoStd(y, i, divisor) ==
    FLt(FMul(FInt(4), VarianceOver(y, divisor)), SquaredDeviation(y, i))

FourThenSpike == <<100, 100, 100, 100, 500>>
FiveThenSpike == <<100, 100, 100, 100, 100, 500>>

\* C11 as stated: a point is flagged exactly when |value - mean| > 2 * std of
\* its series, and the series [100,100,100,100,500] has its last point flagged
\* and labelled a spike.
C11_AsStated ==
    Detected =>
        /\ \A i \in DOMAIN ts.revenue :
              ts.anomaly[i] <=> BeyondTwoStd(ts.revenue, i, Len(ts.revenue) - 1)
        /\ ts.revenue = FourThenSpike =>
              ts.last_is_anomaly /\ ts.insight.shown /\ ts.insight.direction = "spiked"

\* C11: a point is flagged anomalous exactly when |value - mean| > 2 * the
\* sample standard deviation (n - 1 divisor) of its own series; the last point
\* of [100,100,100,100,500] is not flagged (z = 1.79) and gets no insight,
\* while the last point of [100,100,100,100,100,500] is flagged (z = 2.04) and
\* labelled a spike.
C11_SampleStdRule ==
    Detected =>
        /\ \A i \in DOMAIN ts.revenue :
              ts.anomaly[i] <=> BeyondTwoStd(ts.revenue, i, Len(ts.revenue) - 1)
        /\ ts.revenue = FourThenSpike =>
              ~ts.last_is_anomaly /\ ~ts.insight.shown /\ ~alerting.button
        /\ ts.revenue = FiveThenSpike =>
              ts.last_is_anomaly /\ ts.insight.shown /\ ts.insight.direction = "spiked"

C11_Witness ==
    /\ Detected
    /\ ts.revenue = FiveThenSpike
    /\ ts.anomaly = <<FALSE, FALSE, FALSE, FALSE, FALSE, TRUE>>
    /\ ts.insight.shown
    /\ ts.insight.direction = "spiked"

\* the POST of the last run failed: it raised, or was answered with a status
\* other than 2xx
PostFailed == alerting.pressed /\ alerting.response \in {"raised", "non_2xx"}

\* C12: when the POST fails, the run does not end with an uncaught exception
\* and the "sent successfully" message is not displayed.
C12_FailureCaughtAndShown ==
    PostFailed => pc # "post_error" /\ ~alerting.success

\* (last_rev - avg_rev) / avg_rev * 100 over the series of the last run
DeviationOfLastRun ==
    FMul(FDiv(FSub(FInt(ts.revenue[Len(ts.revenue)]), ts.mean_rev), ts.mean_rev), FInt(100))

\* what holds of every run as far as the POST is concerned
PostOnlyWhenAnomalousAndPressed ==
    /\ alerting.posted \in {0, 1}
    /\ alerting.posted = 1 => Detected /\ ts.last_is_anomaly /\ alerting.pressed
    /\ posts <= presses
    /\ Detected /\ ~ts.last_is_anomaly => ~alerting.button /\ alerting.posted = 0
    /\ alerting.alert_text # <<>> =>
          /\ Detected
          /\ ts.insight.shown
          /\ alerting.alert_text[1].diff_pct = ts.insight.diff_pct
          /\ alerting.alert_text[1].diff_pct = DeviationOfLastRun

\* what holds of every step: the POST count moves only by one, in a run the
\* button was pressed in, over a series whose last point is anomalous
PostStep ==
    posts' # posts =>
        /\ posts' = posts + 1
        /\ presses' = presses + 1
        /\ alerting.button
        /\ alerting'.pressed
        /\ ts'.last_is_anomaly

\* C14: a POST is made only in a run where the selected course's last point is
\* anomalous and the button was pressed in that run; a press causes at most
\* one POST, so k presses cause at most k POSTs; with a last point that is not
\* anomalous there is no button and no POST; and the alert text uses the
\* percentage deviation computed in the same run.
C14_PostOnlyOnPress == [](PostOnlyWhenAnomalousAndPressed) /\ [][PostStep]_vars

\* two presses, two POSTs, the second one raising after the text was built
C14_Witness ==
    /\ presses = 2
    /\ posts = 2
    /\ pc = "post_error"
    /\ alerting.pressed
    /\ alerting.alert_text # <<>>
    /\ alerting.alert_text[1].diff_pct = FInt(500)

\* C15: with the sample standard deviation no point of a series of 5 or fewer
\* observations has |z_score| > 2 (z^2 is at most (n-1)^2 / n < 4): no point
\* is flagged, the insight is not written, the button is not drawn and no
\* POST is made.
C15_ShortSeriesNeverAnomalous ==
    Detected /\ Len(ts.revenue) <= 5 =>
        /\ \A i \in DOMAIN ts.revenue :
              /\ ~ts.anomaly[i]
              /\ ~FLt(Frac((Len(ts.revenue) - 1) * (Len(ts.revenue) - 1), Len(ts.revenue)),
                      ts.z_score[i].sq)
        /\ ~ts.last_is_anomaly
        /\ ~ts.insight.shown
        /\ ~alerting.button
        /\ alerting.info
        /\ alerting.posted = 0
        /\ ~ENABLED PressButton

\* five points with the largest z-score five points can have, 16/5 < 4
C15_Witness ==
    /\ Detected
    /\ ts.revenue = <<0, 0, 0, 0, 500>>
    /\ ts.z_score[5].sq = Frac(16, 5)
    /\ ~ts.last_is_anomaly
    /\ ~alerting.button
    /\ alerting.info

========================================================================
